---- MODULE Spec2Model ----
(***************************************************************************)
(* Model of the computational graph library of src/src/main.rs: the        *)
(* Builder (node counter, node map, constraint list), its construction     *)
(* API, the worklist evaluation of fill_nodes and check_constraints.       *)
(*                                                                         *)
(* A u32 does not fit TLC's integers, so a u32 value v is the pair         *)
(* <<v \div 2^16, v % 2^16>> of its 16-bit halves and the arithmetic is    *)
(* done on the halves, exactly modulo 2^32.                                *)
(***************************************************************************)
EXTENDS Integers, Sequences, FiniteSets, TLC

(* ------------------------------------------------------------------ *)
(* Bounds of the model                                                  *)
(* ------------------------------------------------------------------ *)
\* The calls of a run are bounded by their cost: a constructor call or a
\* fill_nodes call costs 2, an assert_equal call costs 1.
MaxCost == 8
\* The longest parent list passed to hint.
MaxParents == 2
\* The most keys in an input map.
MaxInputs == 1

(* ------------------------------------------------------------------ *)
(* u32 values (Node.value: Option<u32>) and Option                      *)
(* ------------------------------------------------------------------ *)
Half == 65536
Byte == 256

U32(hi, lo) == <<hi, lo>>

None == <<>>
Some(x) == <<x>>

\* u32::wrapping_add: the sum modulo 2^32.
wrapping_add(x, y) ==
    LET lo == x[2] + y[2]
        hi == x[1] + y[1] + (lo \div Half)
    IN  U32(hi % Half, lo % Half)

\* The full 32-bit product of two 16-bit halves, as a u32.
HalfMul(a, b) ==
    LET p0 == (a % Byte) * b
        p1 == (a \div Byte) * b
        lo == (p0 % Half) + (p1 % Byte) * Byte
    IN  U32((p0 \div Half) + (p1 \div Byte) + (lo \div Half), lo % Half)

\* (a * b) modulo 2^16 of two 16-bit halves.
HalfMulLow(a, b) ==
    ((a % Byte) * b + (((a \div Byte) * b) % Byte) * Byte) % Half

\* u32::saturating_mul: u32::MAX when the product does not fit.
saturating_mul(x, y) ==
    LET hl == HalfMul(x[1], y[2])
        lh == HalfMul(x[2], y[1])
        ll == HalfMul(x[2], y[2])
        mid == hl[2] + lh[2] + ll[1]
    IN  IF (x[1] # 0 /\ y[1] # 0) \/ hl[1] # 0 \/ lh[1] # 0 \/ mid >= Half
        THEN U32(Half - 1, Half - 1)
        ELSE U32(mid, ll[2])

\* u32::wrapping_mul: the product modulo 2^32.
wrapping_mul(x, y) ==
    LET ll == HalfMul(x[2], y[2])
        cross == HalfMulLow(x[1], y[2]) + HalfMulLow(x[2], y[1])
    IN  U32((ll[1] + cross) % Half, ll[2])

\* x <= y on u32 values.
U32Leq(x, y) == x[1] < y[1] \/ (x[1] = y[1] /\ x[2] <= y[2])

(* ------------------------------------------------------------------ *)
(* Hint functions: the fn(&[u32]) -> u32 values the tests pass to hint  *)
(* ------------------------------------------------------------------ *)
\* |vals| vals[0] / 8
div8(vals) ==
    LET v == vals[1]
    IN  U32(v[1] \div 8, (v[2] \div 8) + (v[1] % 8) * (Half \div 8))

\* The largest r in lo..hi with r * r <= v (r * r <= v holds for lo).
RECURSIVE SqrtSearch(_, _, _)
SqrtSearch(v, lo, hi) ==
    IF lo = hi THEN lo
    ELSE LET mid == (lo + hi + 1) \div 2
         IN  IF U32Leq(HalfMul(mid, mid), v)
             THEN SqrtSearch(v, mid, hi)
             ELSE SqrtSearch(v, lo, mid - 1)

\* |vals| (vals[0] as f64).sqrt() as u32: a u32 is exact in an f64 and the
\* correctly rounded root truncates to the integer square root.
sqrt(vals) == U32(0, SqrtSearch(vals[1], 0, Half - 1))

HintFns == {"div8", "sqrt"}

\* (f.func)(&vals)
CallHint(f, vals) == IF f = "div8" THEN div8(vals) ELSE sqrt(vals)

(* ------------------------------------------------------------------ *)
(* Node, Op                                                             *)
(* ------------------------------------------------------------------ *)
Node(id, value, op) == [id |-> id, value |-> value, op |-> op]

Const(v) == [kind |-> "Const", val |-> v]
Add(a, b) == [kind |-> "Add", a |-> a, b |-> b]
Mul(a, b) == [kind |-> "Mul", a |-> a, b |-> b]
Hint(parents, f) == [kind |-> "Hint", parents |-> parents, f |-> f]

(* ------------------------------------------------------------------ *)
(* Builder: a record [next_id, nodes, constraints]                      *)
(* ------------------------------------------------------------------ *)
BuilderNew == [next_id |-> 0, nodes |-> <<>>, constraints |-> <<>>]

\* HashMap::insert
MapInsert(m, k, v) == [x \in (DOMAIN m) \cup {k} |-> IF x = k THEN v ELSE m[x]]

\* new_node without `self.next_id += 1`.
new_node_reuse(B, op) ==
    LET id == B.next_id
        node == Node(id, None, op)
    IN  [builder |-> [B EXCEPT !.nodes = MapInsert(B.nodes, id, node)],
         node |-> node]

\* Builder::new_node: the builder after the call and the node it returns.
new_node(B, op) ==
    LET id == B.next_id
        node == Node(id, None, op)
    IN  [builder |-> [B EXCEPT !.next_id = id + 1,
                               !.nodes = MapInsert(B.nodes, id, node)],
         node |-> node]

init(B) == new_node(B, None)
constant(B, value) == new_node(B, Some(Const(value)))
\* add with the node being created named as its right operand.
add_self(B, a, b) == new_node(B, Some(Add(a.id, B.next_id)))

add(B, a, b) == new_node(B, Some(Add(a.id, b.id)))
mul(B, a, b) == new_node(B, Some(Mul(a.id, b.id)))

\* parents.iter().map(|n| n.id).collect()
ParentIds(parents) == [i \in 1..Len(parents) |-> parents[i].id]

hint(B, parents, func) == new_node(B, Some(Hint(ParentIds(parents), func)))

\* assert_equal that inserts the pair at the front (constraints.insert(0, ..)).
assert_equal_front(B, a, b) ==
    [B EXCEPT !.constraints = <<<<a.id, b.id>>>> \o B.constraints]

assert_equal(B, a, b) ==
    [B EXCEPT !.constraints = Append(B.constraints, <<a.id, b.id>>)]

(* ------------------------------------------------------------------ *)
(* fill_nodes                                                           *)
(* ------------------------------------------------------------------ *)
\* self.nodes.get(id).and_then(|n| n.value)
GetValue(ns, id) == IF id \in DOMAIN ns THEN ns[id].value ELSE None

\* AssignInputs that keeps the value a node already holds
\* (node.value.get_or_insert(val)).
AssignInputsKeep(ns, inp) ==
    [k \in DOMAIN ns |->
        IF k \in DOMAIN inp /\ ns[k].value = <<>>
        THEN [ns[k] EXCEPT !.value = <<inp[k]>>] ELSE ns[k]]

\* for (id, val) in inputs { if let Some(node) = self.nodes.get_mut(&id) {..} }
AssignInputs(ns, inp) ==
    [k \in DOMAIN ns |->
        IF k \in DOMAIN inp THEN [ns[k] EXCEPT !.value = Some(inp[k])] ELSE ns[k]]

\* HintVals with each value inserted at the front of vals (vals.insert(0, v)).
RECURSIVE HintValsReversed(_, _, _, _)
HintValsReversed(ns, parents, i, vals) ==
    IF i > Len(parents) THEN [all_have |-> TRUE, vals |-> vals]
    ELSE LET v == IF parents[i] \in DOMAIN ns THEN ns[parents[i]].value ELSE <<>>
         IN  IF v = <<>> THEN [all_have |-> FALSE, vals |-> vals]
             ELSE HintValsReversed(ns, parents, i + 1, <<v[1]>> \o vals)

\* The loop over the parents of a Hint: the values pushed so far, and
\* all_have = false at the first parent without a value.
RECURSIVE HintVals(_, _, _, _)
HintVals(ns, parents, i, vals) ==
    IF i > Len(parents) THEN [all_have |-> TRUE, vals |-> vals]
    ELSE LET v == GetValue(ns, parents[i])
         IN  IF v = None THEN [all_have |-> FALSE, vals |-> vals]
             ELSE HintVals(ns, parents, i + 1, Append(vals, v[1]))

\* EvalAdd with an operand that holds no value counted as 0
\* (value.unwrap_or_default()).
EvalAddDefault(ns, o) ==
    LET a_val == GetValue(ns, o.a)
        b_val == GetValue(ns, o.b)
        x == IF a_val # None THEN a_val[1] ELSE U32(0, 0)
        y == IF b_val # None THEN b_val[1] ELSE U32(0, 0)
    IN  Some(wrapping_add(x, y))

EvalAdd(ns, o) ==
    LET a_val == GetValue(ns, o.a)
        b_val == GetValue(ns, o.b)
    IN  IF a_val # None /\ b_val # None
        THEN Some(wrapping_add(a_val[1], b_val[1]))
        ELSE None

EvalMul(ns, o) ==
    LET a_val == GetValue(ns, o.a)
        b_val == GetValue(ns, o.b)
    IN  IF a_val # None /\ b_val # None
        THEN Some(wrapping_mul(a_val[1], b_val[1]))
        ELSE None

EvalHint(ns, o) ==
    LET r == HintVals(ns, o.parents, 1, <<>>)
    IN  IF r.all_have THEN Some(CallHint(o.f, r.vals)) ELSE None

\* The calls (f.func)(&vals) the evaluation of op makes: one, of a Hint
\* whose parents all hold a value, with the values the loop pushed.
HintCalls(ns, op) ==
    IF op = None \/ op[1].kind # "Hint" THEN <<>>
    ELSE LET r == HintVals(ns, op[1].parents, 1, <<>>)
         IN  IF r.all_have THEN <<[f |-> op[1].f, vals |-> r.vals]>> ELSE <<>>

\* What an evaluation does that can be observed: the line "Evaluating Node
\* id", the value computed (None: no "Computed Node" line) and the calls
\* of the hint function.
Evaluation(ns, id, new_val) ==
    [id |-> id, val |-> new_val, calls |-> HintCalls(ns, ns[id].op)]

\* let new_val = match op { ... }
NewVal(ns, op) ==
    IF op = None THEN None
    ELSE LET o == op[1]
         IN  CASE o.kind = "Const" -> Some(o.val)
               [] o.kind = "Add" -> EvalAdd(ns, o)
               [] o.kind = "Mul" -> EvalMul(ns, o)
               [] o.kind = "Hint" -> EvalHint(ns, o)

\* is_dependent of the scan over self.nodes.iter()
IsDependent(other_node, id) ==
    /\ other_node.op # None
    /\ LET o == other_node.op[1]
       IN  CASE o.kind \in {"Add", "Mul"} -> o.a = id \/ o.b = id
             [] o.kind = "Hint" -> \E i \in 1..Len(o.parents) : o.parents[i] = id
             [] OTHER -> FALSE

\* The ids the scan pushes, in the iteration order of the node map.
Dependents(ns, ord, id) ==
    LET Dep(other_id) == IsDependent(ns[other_id], id)
    IN  SelectSeq(ord, Dep)

\* Evaluate with a node that is not ready put back in the worklist to be
\* tried again, instead of being marked visited.
EvaluateRetry(st, ord, id, rest) ==
    LET new_val == NewVal(st.nodes, st.nodes[id].op)
    IN  IF new_val # None
        THEN LET deps == Dependents(st.nodes, ord, id)
             IN  [nodes |-> [st.nodes EXCEPT ![id].value = new_val],
                  worklist |-> rest \o deps,
                  visited |-> st.visited \cup {id},
                  pushed |-> Len(deps),
                  evals |-> <<Evaluation(st.nodes, id, new_val)>>]
        ELSE [nodes |-> st.nodes, worklist |-> <<id>> \o rest,
              visited |-> st.visited, pushed |-> 1,
              evals |-> <<Evaluation(st.nodes, id, new_val)>>]

\* What one iteration of the while loop does once the node is known to
\* exist, not to be visited and not to hold a value.
Evaluate(st, ord, id, rest) ==
    LET new_val == NewVal(st.nodes, st.nodes[id].op)
    IN  IF new_val # None
        THEN LET deps == Dependents(st.nodes, ord, id)
             IN  [nodes |-> [st.nodes EXCEPT ![id].value = new_val],
                  worklist |-> rest \o deps,
                  visited |-> st.visited \cup {id},
                  pushed |-> Len(deps),
                  evals |-> <<Evaluation(st.nodes, id, new_val)>>]
        ELSE [nodes |-> st.nodes, worklist |-> rest,
              visited |-> st.visited \cup {id}, pushed |-> 0,
              evals |-> <<Evaluation(st.nodes, id, new_val)>>]

\* LoopBody without the test of current_val: a node that holds a value is
\* evaluated like one that holds none.
LoopBodyRecompute(st, ord) ==
    LET n == Len(st.worklist)
        id == st.worklist[n]
        rest == SubSeq(st.worklist, 1, n - 1)
        skip == [nodes |-> st.nodes, worklist |-> rest,
                 visited |-> st.visited, pushed |-> 0, evals |-> <<>>]
    IN  IF id \in st.visited THEN skip
        ELSE IF id \notin DOMAIN st.nodes THEN skip
        ELSE Evaluate(st, ord, id, rest)

\* One iteration of `while let Some(id) = worklist.pop()`, on the loop's
\* state st = [nodes, worklist, visited] (pushed: how many ids it pushed,
\* evals: the evaluations it made).
LoopBody(st, ord) ==
    LET n == Len(st.worklist)
        id == st.worklist[n]
        rest == SubSeq(st.worklist, 1, n - 1)
        skip == [nodes |-> st.nodes, worklist |-> rest,
                 visited |-> st.visited, pushed |-> 0, evals |-> <<>>]
    IN  IF id \in st.visited THEN skip
        ELSE IF id \notin DOMAIN st.nodes THEN skip
        ELSE IF st.nodes[id].value # None
             THEN [skip EXCEPT !.visited = st.visited \cup {id}]
             ELSE Evaluate(st, ord, id, rest)

\* The state of the loop when it is entered: inputs assigned, worklist =
\* the keys of the node map, visited empty.
LoopEntry(ns, inp, ord) ==
    [nodes |-> AssignInputs(ns, inp), worklist |-> ord, visited |-> {}, pushed |-> 0,
     evals |-> <<>>]

\* The loop run to its end.
RECURSIVE RunLoop(_, _)
RunLoop(st, ord) ==
    IF st.worklist = <<>> THEN st ELSE RunLoop(LoopBody(st, ord), ord)

\* The node map fill_nodes(inp) leaves, for the iteration order ord.
fill_nodes(ns, inp, ord) == RunLoop(LoopEntry(ns, inp, ord), ord).nodes

(* ------------------------------------------------------------------ *)
(* check_constraints                                                    *)
(* ------------------------------------------------------------------ *)
\* CheckLoop that returns at the first failing pair.
RECURSIVE CheckLoopFirst(_, _, _, _, _)
CheckLoopFirst(ns, cs, i, all_ok, log) ==
    IF i > Len(cs) THEN [all_ok |-> all_ok, log |-> log]
    ELSE LET val_a == GetValue(ns, cs[i][1])
             val_b == GetValue(ns, cs[i][2])
         IN  IF val_a # val_b
             THEN [all_ok |-> FALSE,
                   log |-> Append(log, <<cs[i][1], val_a, cs[i][2], val_b>>)]
             ELSE CheckLoopFirst(ns, cs, i + 1, all_ok, log)

\* for (a, b) in &self.constraints { ... }: all_ok and the lines printed.
RECURSIVE CheckLoop(_, _, _, _, _)
CheckLoop(ns, cs, i, all_ok, log) ==
    IF i > Len(cs) THEN [all_ok |-> all_ok, log |-> log]
    ELSE LET val_a == GetValue(ns, cs[i][1])
             val_b == GetValue(ns, cs[i][2])
         IN  IF val_a # val_b
             THEN CheckLoop(ns, cs, i + 1, FALSE,
                            Append(log, <<cs[i][1], val_a, cs[i][2], val_b>>))
             ELSE CheckLoop(ns, cs, i + 1, all_ok, log)

check_constraints(B) == CheckLoop(B.nodes, B.constraints, 1, TRUE, <<>>)

(* ------------------------------------------------------------------ *)
(* State                                                                *)
(* ------------------------------------------------------------------ *)
VARIABLES
    next_id,      \* Builder.next_id
    nodes,        \* Builder.nodes: NodeId -> Node
    constraints,  \* Builder.constraints
    order,        \* the iteration order of Builder.nodes (<<>>: not yet iterated)
    pc,           \* "idle", or "loop" inside fill_nodes
    inputs,       \* the argument of the current (or last) fill_nodes call
    worklist,     \* fill_nodes' worklist
    visited,      \* fill_nodes' visited
    pops,         \* worklist.pop() calls that returned an id, this call
    pushes,       \* worklist.push() calls of the dependents scan, this call
    evals,        \* the evaluations made, this call
    fills,        \* fill_nodes calls so far
    assigned_op,  \* some fill_nodes call so far assigned a node that has an operation
    ret           \* the last call that returned and what it returned

vars == <<next_id, nodes, constraints, order, pc, inputs, worklist, visited,
          pops, pushes, evals, fills, assigned_op, ret>>

Self == [next_id |-> next_id, nodes |-> nodes, constraints |-> constraints]

SetSelf(B) ==
    /\ next_id' = B.next_id
    /\ nodes' = B.nodes
    /\ constraints' = B.constraints

\* The values the model passes to constant and puts in input maps.
Vals == {U32(0, 2), U32(Half \div 2, 0)}

\* The handles the caller holds: the nodes the constructors returned.
Handles == {Node(i, None, nodes[i].op) : i \in DOMAIN nodes}

\* The non-empty parent lists of at most MaxParents handles.
ParentLists == UNION {[1..n -> Handles] : n \in 1..MaxParents}

\* The orders in which a HashMap with the key set S can iterate.
Orders(S) ==
    {o \in [1..Cardinality(S) -> S] : \A i, j \in DOMAIN o : o[i] = o[j] => i = j}

\* The input maps of the model: at most MaxInputs keys among the node ids
\* and next_id, an id that names no node.
InputMaps ==
    UNION {[K -> Vals] : K \in {K \in SUBSET (0..next_id) : Cardinality(K) <= MaxInputs}}

\* What the calls made so far cost.
Cost == 2 * next_id + Len(constraints) + 2 * fills

Init ==
    /\ next_id = BuilderNew.next_id
    /\ nodes = BuilderNew.nodes
    /\ constraints = BuilderNew.constraints
    /\ order = <<>>
    /\ pc = "idle"
    /\ inputs = <<>>
    /\ worklist = <<>>
    /\ visited = {}
    /\ pops = 0
    /\ pushes = 0
    /\ evals = <<>>
    /\ fills = 0
    /\ assigned_op = FALSE
    /\ ret = [call |-> "new"]

(* ------------------------------------------------------------------ *)
(* The construction API                                                 *)
(* ------------------------------------------------------------------ *)
\* A constructor call with result r = [builder, node].
Construct(call, r) ==
    /\ pc = "idle"
    /\ Cost + 2 <= MaxCost
    /\ SetSelf(r.builder)
    /\ order' = <<>>
    /\ ret' = [call |-> call, value |-> r.node]
    /\ UNCHANGED <<pc, inputs, worklist, visited, pops, pushes, evals, fills,
                   assigned_op>>

CallInit == Construct("init", init(Self))

CallConstant ==
    /\ pc = "idle"
    /\ \E v \in Vals : Construct("constant", constant(Self, v))

CallAdd ==
    /\ pc = "idle"
    /\ \E a, b \in Handles : Construct("add", add(Self, a, b))

CallMul ==
    /\ pc = "idle"
    /\ \E a, b \in Handles : Construct("mul", mul(Self, a, b))

CallHintNode ==
    /\ pc = "idle"
    /\ Cost + 2 <= MaxCost
    /\ \E parents \in ParentLists, f \in HintFns :
           Construct("hint", hint(Self, parents, f))

CallAssertEqual ==
    /\ pc = "idle"
    /\ Cost + 1 <= MaxCost
    /\ \E a, b \in Handles :
           /\ SetSelf(assert_equal(Self, a, b))
           /\ ret' = [call |-> "assert_equal"]
           /\ UNCHANGED <<order, pc, inputs, worklist, visited, pops, pushes, evals,
                        fills, assigned_op>>

(* ------------------------------------------------------------------ *)
(* fill_nodes, one loop iteration per step                              *)
(* ------------------------------------------------------------------ *)
\* The call: the inputs are assigned and the loop is entered.  The map is
\* iterated in the order seen before unless nodes were inserted since.
FillEnter(inp, ord) ==
    LET st == LoopEntry(nodes, inp, ord)
    IN  /\ pc = "idle"
        /\ pc' = "loop"
        /\ inputs' = inp
        /\ order' = ord
        /\ nodes' = st.nodes
        /\ worklist' = st.worklist
        /\ visited' = st.visited
        /\ pops' = 0
        /\ pushes' = 0
        /\ evals' = st.evals
        /\ fills' = fills + 1
        /\ assigned_op' = (assigned_op \/ \E k \in DOMAIN inp :
                                             k \in DOMAIN nodes /\ nodes[k].op # None)
        /\ UNCHANGED <<next_id, constraints, ret>>

FillNodesCall ==
    /\ pc = "idle"
    /\ Cost + 2 <= MaxCost
    /\ \E inp \in InputMaps :
           \E ord \in (IF Len(order) = Cardinality(DOMAIN nodes)
                       THEN {order} ELSE Orders(DOMAIN nodes)) :
               FillEnter(inp, ord)

FillNodesStep ==
    /\ pc = "loop"
    /\ worklist # <<>>
    /\ LET st == LoopBody([nodes |-> nodes, worklist |-> worklist,
                           visited |-> visited], order)
       IN  /\ nodes' = st.nodes
           /\ worklist' = st.worklist
           /\ visited' = st.visited
           /\ pops' = pops + 1
           /\ pushes' = pushes + st.pushed
           /\ evals' = evals \o st.evals
    /\ UNCHANGED <<next_id, constraints, order, pc, inputs, fills, assigned_op, ret>>

\* worklist.pop() returns None: the loop ends, the locals are dropped.
FillNodesReturn ==
    /\ pc = "loop"
    /\ worklist = <<>>
    /\ pc' = "idle"
    /\ visited' = {}
    /\ ret' = [call |-> "fill_nodes"]
    /\ UNCHANGED <<next_id, nodes, constraints, order, inputs, worklist,
                   pops, pushes, evals, fills, assigned_op>>

(* ------------------------------------------------------------------ *)
(* check_constraints                                                    *)
(* ------------------------------------------------------------------ *)
CallCheckConstraints ==
    /\ pc = "idle"
    /\ LET r == check_constraints(Self)
       IN  ret' = [call |-> "check_constraints", value |-> r.all_ok, log |-> r.log]
    /\ UNCHANGED <<next_id, nodes, constraints, order, pc, inputs, worklist,
                   visited, pops, pushes, evals, fills, assigned_op>>

Next ==
    \/ CallInit
    \/ CallConstant
    \/ CallAdd
    \/ CallMul
    \/ CallHintNode
    \/ CallAssertEqual
    \/ FillNodesCall
    \/ FillNodesStep
    \/ FillNodesReturn
    \/ CallCheckConstraints

Spec == Init /\ [][Next]_vars

(* ------------------------------------------------------------------ *)
(* Notions the properties use                                           *)
(* ------------------------------------------------------------------ *)
\* fill_nodes has just returned.
FillReturned == pc = "idle" /\ ret.call = "fill_nodes"

\* check_constraints has just returned.
Checked == pc = "idle" /\ ret.call = "check_constraints"

\* The loop of fill_nodes has just been entered.
LoopEntered == pc = "loop" /\ pops = 0

\* The ids a node's operation names as operands.
Operands(node) ==
    IF node.op = None THEN {}
    ELSE LET o == node.op[1]
         IN  CASE o.kind = "Const" -> {}
               [] o.kind \in {"Add", "Mul"} -> {o.a, o.b}
               [] o.kind = "Hint" -> {o.parents[i] : i \in 1..Len(o.parents)}

Holds(ns, id) == id \in DOMAIN ns /\ ns[id].value # None

\* The values of a node map.
Values(ns) == [id \in DOMAIN ns |-> ns[id].value]

(* ------------------------------------------------------------------ *)
(* C1..C3: the fixpoint fill_nodes reaches                              *)
(* ------------------------------------------------------------------ *)
\* C1: when fill_nodes returns, every node with an operation whose operands
\* all hold a value holds a value itself.
C1_Completeness ==
    FillReturned =>
        \A id \in DOMAIN nodes :
            (nodes[id].op # None /\ \A p \in Operands(nodes[id]) : Holds(nodes, p))
                => Holds(nodes, id)

\* C2: for the graph and the input map of a call, fill_nodes ends with the
\* same value in every node for every iteration order of the node map.
C2_OrderIndependence ==
    LoopEntered =>
        \A o \in Orders(DOMAIN nodes) :
            Values(fill_nodes(nodes, inputs, o)) = Values(fill_nodes(nodes, inputs, order))

\* C3: a second fill_nodes call with the same input map on the same builder
\* leaves every node with the value the first call left.
C3_Repeatable ==
    FillReturned => Values(fill_nodes(nodes, inputs, order)) = Values(nodes)

(* ------------------------------------------------------------------ *)
(* C4: termination                                                      *)
(* ------------------------------------------------------------------ *)
\* The id the next worklist.pop() returns.
Top == worklist[Len(worklist)]

\* Every id pushed is in the worklist or was popped: the pops never exceed
\* the node count plus the pushes of the dependents scans.
PopsBounded ==
    pc = "loop" => pops + Len(worklist) = Cardinality(DOMAIN nodes) + pushes

\* An id that passes the visited check is visited from then on, to the end
\* of the call.
VisitedOnce ==
    [][(pc = "loop" /\ pc' = "loop")
          => /\ visited \subseteq visited'
             /\ (worklist # <<>> /\ Top \notin visited) => Top \in visited']_vars

\* What is left of the loop: the ids in the worklist, and for every node
\* not yet visited one more than the ids one dependents scan can push.
Variant ==
    Len(worklist)
        + (Cardinality(DOMAIN nodes) + 1) * Cardinality((DOMAIN nodes) \ visited)

\* Every iteration of the loop makes the variant smaller.
VariantDecreases == [][(pc = "loop" /\ pc' = "loop") => Variant' < Variant]_vars

\* C4: the fill_nodes loop reaches an empty worklist and returns: every
\* iteration decreases a variant that is never negative (an iteration is
\* possible whenever the worklist holds an id, the return once it is empty);
\* an id passes the visited check at most once and the pops are bounded by
\* the node count plus the dependents pushed.
C4_Termination ==
    /\ []PopsBounded
    /\ VisitedOnce
    /\ VariantDecreases

\* A call of fill_nodes has returned after popping more ids than the map
\* has nodes: dependents were pushed and popped again.
C4_Witness ==
    FillReturned /\ pushes > 0 /\ pops = Cardinality(DOMAIN nodes) + pushes

(* ------------------------------------------------------------------ *)
(* C8: wraparound arithmetic                                            *)
(* ------------------------------------------------------------------ *)
\* The four base-256 digits of a u32, least significant first, and back.
Digits(x) == <<x[2] % Byte, x[2] \div Byte, x[1] % Byte, x[1] \div Byte>>
FromDigits(d) == U32(d[4] * Byte + d[3], d[2] * Byte + d[1])

\* Digit k of the sum of two digit sequences, and the carry out of it.
RECURSIVE SumColumn(_, _, _)
SumColumn(dx, dy, k) ==
    LET carry == IF k = 1 THEN 0 ELSE SumColumn(dx, dy, k - 1) \div Byte
    IN  dx[k] + dy[k] + carry

\* (x + y) mod 2^32: the low four digits of the sum.
SumMod32(x, y) ==
    FromDigits([k \in 1..4 |-> SumColumn(Digits(x), Digits(y), k) % Byte])

RECURSIVE PartialProducts(_, _, _, _)
PartialProducts(dx, dy, k, i) ==
    IF i > k THEN 0 ELSE dx[i] * dy[k + 1 - i] + PartialProducts(dx, dy, k, i + 1)

\* Column k of the long multiplication of two digit sequences, with the
\* carry of the column before.
RECURSIVE ProductColumn(_, _, _)
ProductColumn(dx, dy, k) ==
    LET carry == IF k = 1 THEN 0 ELSE ProductColumn(dx, dy, k - 1) \div Byte
    IN  PartialProducts(dx, dy, k, 1) + carry

\* (x * y) mod 2^32: the low four digits of the product.
ProductMod32(x, y) ==
    FromDigits([k \in 1..4 |-> ProductColumn(Digits(x), Digits(y), k) % Byte])

\* Node id has the binary operation kind.
IsBinary(ns, id, kind) == ns[id].op # None /\ ns[id].op[1].kind = kind

\* A step of the loop stores a value in node id.
Computes(id) ==
    /\ pc = "loop" /\ pc' = "loop"
    /\ nodes[id].value = None
    /\ nodes'[id].value # None

\* C8: the value fill_nodes stores in an Add node is (left + right) mod 2^32
\* and in a Mul node (left * right) mod 2^32, of the values the operands
\* hold when it is computed.
C8_Wraparound ==
    [][\A id \in DOMAIN nodes :
          LET o == nodes[id].op[1]
          IN  /\ (IsBinary(nodes, id, "Add") /\ Computes(id))
                    => /\ Holds(nodes, o.a) /\ Holds(nodes, o.b)
                       /\ nodes'[id].value =
                             Some(SumMod32(nodes[o.a].value[1], nodes[o.b].value[1]))
              /\ (IsBinary(nodes, id, "Mul") /\ Computes(id))
                    => /\ Holds(nodes, o.a) /\ Holds(nodes, o.b)
                       /\ nodes'[id].value =
                             Some(ProductMod32(nodes[o.a].value[1], nodes[o.b].value[1]))
      ]_vars

\* A Mul node of operands holding 2^31 and 2 was computed and holds 0.
C8_Witness ==
    \E id \in DOMAIN nodes :
        /\ IsBinary(nodes, id, "Mul")
        /\ GetValue(nodes, nodes[id].op[1].a) = Some(U32(Half \div 2, 0))
        /\ GetValue(nodes, nodes[id].op[1].b) = Some(U32(0, 2))
        /\ nodes[id].value = Some(U32(0, 0))

(* ------------------------------------------------------------------ *)
(* C9: unresolved nodes stay absent                                     *)
(* ------------------------------------------------------------------ *)
\* The operands of a node, of its operands, and so on.
RECURSIVE TransOperands(_, _)
TransOperands(ns, id) ==
    LET direct == Operands(ns[id]) \cap DOMAIN ns
    IN  direct \cup UNION {TransOperands(ns, p) : p \in direct \ {id}}

IsInput(ns, id) == ns[id].op = None

IsDerived(ns, id) == ns[id].op # None /\ ns[id].op[1].kind \in {"Add", "Mul", "Hint"}

\* C9 as stated: when the input map names only input nodes, a node with an
\* operand, direct or transitive, that is an input node the map does not
\* assign holds no value when fill_nodes returns.
C9_UnassignedByMap ==
    (FillReturned /\ \A k \in DOMAIN inputs : k \in DOMAIN nodes /\ IsInput(nodes, k))
        => \A id \in DOMAIN nodes :
              (/\ IsDerived(nodes, id)
               /\ \E x \in TransOperands(nodes, id) :
                     IsInput(nodes, x) /\ x \notin DOMAIN inputs)
                  => ~Holds(nodes, id)

\* C9, amended: when no input map of this or an earlier call names a node
\* that has an operation, a node with an operand, direct or transitive, that
\* is an input node holding no value (none of the maps assigned it) holds
\* no value when fill_nodes returns.
C9_NeverAssigned ==
    (FillReturned /\ ~assigned_op)
        => \A id \in DOMAIN nodes :
              (/\ IsDerived(nodes, id)
               /\ \E x \in TransOperands(nodes, id) :
                     IsInput(nodes, x) /\ ~Holds(nodes, x))
                  => ~Holds(nodes, id)

\* fill_nodes returned with a node absent whose one operand is an input
\* never assigned and whose other operand holds a value.
C9_Witness ==
    /\ FillReturned /\ ~assigned_op
    /\ \E id \in DOMAIN nodes :
          /\ IsDerived(nodes, id)
          /\ ~Holds(nodes, id)
          /\ \E x \in Operands(nodes[id]) : IsInput(nodes, x) /\ ~Holds(nodes, x)
          /\ \E c \in Operands(nodes[id]) : Holds(nodes, c)

(* ------------------------------------------------------------------ *)
(* C10: check_constraints                                               *)
(* ------------------------------------------------------------------ *)
\* Equality of optional values: absent equals absent and nothing else.
OptEq(u, v) ==
    \/ u = None /\ v = None
    \/ u # None /\ v # None /\ u[1] = v[1]

\* The positions of the constraint pairs whose values differ.
Failing(ns, cs) ==
    {i \in 1..Len(cs) : ~OptEq(ns[cs[i][1]].value, ns[cs[i][2]].value)}

\* C10: check_constraints returns true iff the values of every recorded
\* pair are equal as optional values, prints one line per failing pair and
\* changes nothing of the builder.
C10_CheckConstraints ==
    [][(pc = "idle" /\ pc' = "idle" /\ ret'.call = "check_constraints")
          => /\ ret'.value = (Failing(nodes, constraints) = {})
             /\ Len(ret'.log) = Cardinality(Failing(nodes, constraints))
             /\ \A i \in Failing(nodes, constraints) :
                   \E j \in 1..Len(ret'.log) :
                       ret'.log[j][1] = constraints[i][1] /\ ret'.log[j][3] = constraints[i][2]
             /\ UNCHANGED <<next_id, nodes, constraints>>
      ]_vars

\* check_constraints returned false over two pairs: one of two absent
\* values, which passes, and one of an absent and a present value.
C10_Witness ==
    /\ Checked
    /\ ret.value = FALSE
    /\ Len(ret.log) = 1
    /\ \E i \in 1..Len(constraints) :
          ~Holds(nodes, constraints[i][1]) /\ ~Holds(nodes, constraints[i][2])
    /\ \E i \in 1..Len(constraints) :
          Holds(nodes, constraints[i][1]) # Holds(nodes, constraints[i][2])

(* ------------------------------------------------------------------ *)
(* The programs of main and of src/src/tests.rs                         *)
(* ------------------------------------------------------------------ *)
\* The u32 value of a literal below 2^31.
Lit(n) == U32(n \div Half, n % Half)

\* A state right after the construction calls that end with builder B and
\* whose last call returned r.
Built(B, r) ==
    /\ next_id = B.next_id
    /\ nodes = B.nodes
    /\ constraints = B.constraints
    /\ order = <<>>
    /\ pc = "idle"
    /\ inputs = <<>>
    /\ worklist = <<>>
    /\ visited = {}
    /\ pops = 0
    /\ pushes = 0
    /\ evals = <<>>
    /\ fills = 0
    /\ assigned_op = FALSE
    /\ ret = r

\* The one fill_nodes call of a test: inputs.insert(id, val); fill_nodes(inputs).
TestFill(id, val) ==
    /\ pc = "idle"
    /\ fills = 0
    /\ \E ord \in Orders(DOMAIN nodes) : FillEnter(id :> val, ord)

\* main (the constant is 8) and test_polynomial (the constant is 3):
\* x = 0, x_squared = 1, five = 2, x_squared_plus_x = 3, y = 4.
PolyBuild(c) ==
    LET x == init(BuilderNew)
        x_squared == mul(x.builder, x.node, x.node)
        five == constant(x_squared.builder, c)
        x_squared_plus_x == add(five.builder, x_squared.node, x.node)
    IN  add(x_squared_plus_x.builder, x_squared_plus_x.node, five.node)

PolyConsts == {Lit(8), Lit(3)}
PolyInputs == {Lit(3), Lit(65537), U32(Half - 1, Half - 1)}

PolyInit ==
    \E c \in PolyConsts :
        LET y == PolyBuild(c)
        IN  Built(y.builder, [call |-> "add", value |-> y.node])

PolyFill == \E v \in PolyInputs : TestFill(0, v)

PolyNext ==
    \/ PolyFill
    \/ FillNodesStep
    \/ FillNodesReturn
    \/ CallCheckConstraints

PolySpec == PolyInit /\ [][PolyNext]_vars

\* test_hint_division: a = 0, one = 1, b = 2, c = 3, eight = 4, c_times_8 = 5.
DivBuild ==
    LET a == init(BuilderNew)
        one == constant(a.builder, Lit(1))
        b == add(one.builder, a.node, one.node)
        c == hint(b.builder, <<b.node>>, "div8")
        eight == constant(c.builder, Lit(8))
        c_times_8 == mul(eight.builder, c.node, eight.node)
    IN  assert_equal(c_times_8.builder, b.node, c_times_8.node)

\* a = 7 (the test): b = 8;  a = 6: b = 7.
DivInputs == {Lit(7), Lit(6)}

DivInit == Built(DivBuild, [call |-> "assert_equal"])

DivFill == \E v \in DivInputs : TestFill(0, v)

DivNext ==
    \/ DivFill
    \/ FillNodesStep
    \/ FillNodesReturn
    \/ CallCheckConstraints

DivSpec == DivInit /\ [][DivNext]_vars

\* test_hint_sqrt: x = 0, seven = 1, x_plus_seven = 2, sqrt_node = 3,
\* computed_sq = 4.
SqrtBuild ==
    LET x == init(BuilderNew)
        seven == constant(x.builder, Lit(7))
        x_plus_seven == add(seven.builder, x.node, seven.node)
        sqrt_node == hint(x_plus_seven.builder, <<x_plus_seven.node>>, "sqrt")
        computed_sq == mul(sqrt_node.builder, sqrt_node.node, sqrt_node.node)
    IN  assert_equal(computed_sq.builder, computed_sq.node, x_plus_seven.node)

SqrtInit == Built(SqrtBuild, [call |-> "assert_equal"])

SqrtFill == TestFill(0, Lit(2))

SqrtNext ==
    \/ SqrtFill
    \/ FillNodesStep
    \/ FillNodesReturn
    \/ CallCheckConstraints

SqrtSpec == SqrtInit /\ [][SqrtNext]_vars

\* The test's fill_nodes call has returned.
TestFilled == pc = "idle" /\ fills = 1

(* ------------------------------------------------------------------ *)
(* C5..C7: the end-to-end scenarios                                     *)
(* ------------------------------------------------------------------ *)
\* C5: after fill_nodes with x the polynomial graph holds x_sq = x * x,
\* plus_x = x * x + x and y = x * x + x + c modulo 2^32 (9, 12 and 20 for
\* x = 3 and c = 8), and check_constraints returns true.
C5_Polynomial ==
    TestFilled =>
        LET x == inputs[0]
            c == nodes[2].op[1].val
            x_sq == wrapping_mul(x, x)
            plus_x == wrapping_add(x_sq, x)
        IN  /\ nodes[1].value = Some(x_sq)
            /\ nodes[3].value = Some(plus_x)
            /\ nodes[4].value = Some(wrapping_add(plus_x, c))
            /\ (x = Lit(3) /\ c = Lit(8))
                   => /\ nodes[1].value = Some(Lit(9))
                      /\ nodes[3].value = Some(Lit(12))
                      /\ nodes[4].value = Some(Lit(20))
            /\ Checked => ret.value = TRUE

\* C6: after fill_nodes with a, check_constraints returns true when
\* b = a + 1 is a multiple of 8 (a = 7) and false when it is not (a = 6).
C6_DivisionHint ==
    (TestFilled /\ Checked) => (ret.value = (inputs[0] = Lit(7)))

\* C7: after fill_nodes with x = 2 the nodes hold s = 9, r = 3 and
\* check = 9, and check_constraints returns true.
C7_SqrtRoundTrip ==
    TestFilled =>
        /\ nodes[2].value = Some(Lit(9))
        /\ nodes[3].value = Some(Lit(3))
        /\ nodes[4].value = Some(Lit(9))
        /\ Checked => ret.value = TRUE

(* ------------------------------------------------------------------ *)
(* C11: a value set is kept to the end of the call                      *)
(* ------------------------------------------------------------------ *)
\* C11: from the entry of the loop of fill_nodes (the inputs are assigned)
\* to its return, a node that holds a value holds the same value after
\* every step.
C11_ValueImmutable ==
    [][pc = "loop"
          => \A id \in DOMAIN nodes :
                Holds(nodes, id) => nodes'[id].value = nodes[id].value]_vars

\* fill_nodes returned after evaluating a node, with a node that has an
\* operation still holding the value of the input map, which is not the
\* value its operation gives.
C11_Witness ==
    /\ FillReturned
    /\ evals # <<>>
    /\ \E id \in DOMAIN inputs :
          /\ id \in DOMAIN nodes
          /\ nodes[id].value = Some(inputs[id])
          /\ NewVal(nodes, nodes[id].op) \notin {None, nodes[id].value}

(* ------------------------------------------------------------------ *)
(* C12: the graph is acyclic by construction                            *)
(* ------------------------------------------------------------------ *)
\* C12: every operand id of every Add, Mul and Hint operation is a key of
\* the node map and smaller than the id of the node that names it, and no
\* node is an operand of itself, directly or transitively.
C12_Acyclic ==
    \A id \in DOMAIN nodes :
        /\ \A p \in Operands(nodes[id]) : p \in DOMAIN nodes /\ p < id
        /\ id \notin TransOperands(nodes, id)

\* A Hint node names a node whose operation names a third node.
C12_Witness ==
    \E id \in DOMAIN nodes :
        /\ nodes[id].op # None /\ nodes[id].op[1].kind = "Hint"
        /\ \E p \in Operands(nodes[id]) :
              IsDerived(nodes, p) /\ Operands(nodes[p]) # {}

(* ------------------------------------------------------------------ *)
(* C13: NodeId allocation                                               *)
(* ------------------------------------------------------------------ *)
Constructors == {"init", "constant", "add", "mul", "hint"}

\* The step is a call of a constructor.
ConstructorCall == pc = "idle" /\ pc' = "idle" /\ ret'.call \in Constructors

\* The node map holds exactly the ids below the counter, each under its
\* own key.
IdsDense ==
    /\ DOMAIN nodes = 0..(next_id - 1)
    /\ \A i \in DOMAIN nodes : nodes[i].id = i

\* A constructor returns the counter value as the id of a new node and
\* increments the counter, the nodes there keep their ids and operations;
\* every other step leaves the counter alone.
Allocates ==
    [][/\ ConstructorCall
          => /\ ret'.value.id = next_id
             /\ next_id' = next_id + 1
             /\ next_id \notin DOMAIN nodes
             /\ DOMAIN nodes' = DOMAIN nodes \cup {next_id}
             /\ nodes'[next_id].id = next_id
             /\ \A i \in DOMAIN nodes :
                   nodes'[i].id = nodes[i].id /\ nodes'[i].op = nodes[i].op
       /\ ~ConstructorCall => next_id' = next_id
      ]_vars

\* C13: every constructor call returns the counter value and increments
\* the counter by one, so the node map holds exactly the ids 0..n-1 after
\* n constructor calls and no id is used twice; fill_nodes, assert_equal
\* and check_constraints never change the counter.
C13_Allocation ==
    /\ []IdsDense
    /\ Allocates

\* A constructor has just returned the second id or a later one, after a
\* fill_nodes call and an assert_equal call.
C13_Witness ==
    /\ pc = "idle"
    /\ ret.call \in Constructors
    /\ ret.value.id = next_id - 1
    /\ next_id >= 2
    /\ fills >= 1
    /\ constraints # <<>>

(* ------------------------------------------------------------------ *)
(* C14: a node found not ready is tried again                           *)
(* ------------------------------------------------------------------ *)
\* Evaluation i of the call found its node not ready: the node has
\* operands and no value was computed.
NotReady(i) == evals[i].val = None /\ IsDerived(nodes, evals[i].id)

\* Evaluation j of the call gave a value to an operand of node id.
Unblocks(j, id) == evals[j].val # None /\ evals[j].id \in Operands(nodes[id])

\* C14: when fill_nodes returns, a node that was evaluated and found not
\* ready, and one of whose operands was given a value by a later evaluation
\* of the call, was evaluated again after that.
C14_Revisit ==
    FillReturned =>
        \A i, j \in 1..Len(evals) :
            (i < j /\ NotReady(i) /\ Unblocks(j, evals[i].id))
                => \E k \in (j + 1)..Len(evals) : evals[k].id = evals[i].id

(* ------------------------------------------------------------------ *)
(* C15: a derived value is its operation applied to the operands        *)
(* ------------------------------------------------------------------ *)
\* C15: whenever no fill_nodes call is running, every node with an
\* operation that holds a value holds the result of its operation on the
\* values its operands hold.
C15_DerivedFunction ==
    pc = "idle" =>
        \A id \in DOMAIN nodes :
            (nodes[id].op # None /\ Holds(nodes, id))
                => nodes[id].value = NewVal(nodes, nodes[id].op)

\* C15 for the nodes no input map named: a node with an operation that
\* holds a value some fill_nodes call computed holds the result of its
\* operation on the values its operands hold.
C15_ComputedOnly ==
    (pc = "idle" /\ ~assigned_op) =>
        \A id \in DOMAIN nodes :
            (nodes[id].op # None /\ Holds(nodes, id))
                => nodes[id].value = NewVal(nodes, nodes[id].op)

(* ------------------------------------------------------------------ *)
(* C16: when the hint function is called                                *)
(* ------------------------------------------------------------------ *)
\* The positions of the evaluations of the call that called the hint
\* function of node id.
CallsOf(es, id) == {k \in 1..Len(es) : es[k].id = id /\ es[k].calls # <<>>}

\* A call of a hint function by an evaluation of node id is one call, of
\* the function of the Hint node id, with the values its parents hold, in
\* the order of the parent list.
CalledInOrder(ns, e) ==
    /\ ns[e.id].op # None
    /\ ns[e.id].op[1].kind = "Hint"
    /\ Len(e.calls) = 1
    /\ LET o == ns[e.id].op[1]
           call == e.calls[1]
       IN  /\ call.f = o.f
           /\ Len(call.vals) = Len(o.parents)
           /\ \A i \in 1..Len(o.parents) :
                 Holds(ns, o.parents[i]) /\ ns[o.parents[i]].value = Some(call.vals[i])

\* C16: no call outside the loop of fill_nodes (a constructor, assert_equal,
\* check_constraints) calls a hint function; an iteration of the loop calls
\* it only for a Hint node whose parents all hold a value, with those values
\* in the declared order, and at most once per node in one fill_nodes call.
C16_HintDiscipline ==
    [][/\ (pc = "idle" /\ pc' = "idle") => evals' = evals
       /\ (pc = "idle" /\ pc' = "loop") => evals' = <<>>
       /\ pc = "loop"
             => /\ Len(evals') >= Len(evals)
                /\ SubSeq(evals', 1, Len(evals)) = evals
                /\ \A k \in (Len(evals) + 1)..Len(evals') :
                      evals'[k].calls # <<>>
                          => /\ CalledInOrder(nodes, evals'[k])
                             /\ CallsOf(evals, evals'[k].id) = {}
      ]_vars

\* fill_nodes returned after calling the hint function of a node with two
\* parents that hold different values.
C16_Witness ==
    /\ FillReturned
    /\ \E k \in 1..Len(evals) :
          /\ evals[k].calls # <<>>
          /\ Len(evals[k].calls[1].vals) = 2
          /\ evals[k].calls[1].vals[1] # evals[k].calls[1].vals[2]

(* ------------------------------------------------------------------ *)
(* C17: input assignment                                                *)
(* ------------------------------------------------------------------ *)
\* Every node the input map names holds the mapped value.
InputsAssigned ==
    \A k \in (DOMAIN inputs) \cap (DOMAIN nodes) : nodes[k].value = Some(inputs[k])

FillStep == pc = "loop" \/ pc' = "loop"

\* The step is a call of assert_equal.
AssertEqualCall == pc = "idle" /\ pc' = "idle" /\ ret'.call = "assert_equal"

\* The node map has the same ids, with the same id and operation in every
\* node.
SameGraph ==
    /\ DOMAIN nodes' = DOMAIN nodes
    /\ \A i \in DOMAIN nodes : nodes'[i].id = nodes[i].id /\ nodes'[i].op = nodes[i].op

\* C18: no step of fill_nodes changes the set of node ids, the operation of
\* a node, the constraint list or the id counter; assert_equal appends one
\* pair at the end of the constraint list and leaves the nodes, their
\* values and the counter unchanged.
C18_Frame ==
    [][/\ FillStep
          => /\ SameGraph
             /\ constraints' = constraints
             /\ next_id' = next_id
       /\ AssertEqualCall
          => /\ Len(constraints') = Len(constraints) + 1
             /\ SubSeq(constraints', 1, Len(constraints)) = constraints
             /\ \E a, b \in DOMAIN nodes : constraints'[Len(constraints')] = <<a, b>>
             /\ nodes' = nodes
             /\ next_id' = next_id
      ]_vars

\* assert_equal has just appended a second, different pair, after a
\* fill_nodes call that left a value in a node.
C18_Witness ==
    /\ pc = "idle"
    /\ ret.call = "assert_equal"
    /\ Len(constraints) = 2
    /\ constraints[1] # constraints[2]
    /\ fills >= 1
    /\ \E id \in DOMAIN nodes : Holds(nodes, id)

====
